---------------------------- MODULE Spec2Model ----------------------------
(***************************************************************************)
(* A model of utils.py of arxiv-sanity-preserver:                          *)
(*   - ConfigFromFile: configuration loaded through configparser,          *)
(*   - _tempfile / open_atomic / safe_pickle_dump: write to a temporary    *)
(*     file, then rename it onto the destination,                          *)
(*   - strip_version / isvalidid: arxiv identifier helpers.                *)
(* Strings are sequences of one-character strings.                         *)
(***************************************************************************)
EXTENDS Integers, Sequences, FiniteSets, TLC

VARIABLES
    idstr,      \* the argument of strip_version / isvalidid
    matchres,   \* result of isvalidid(idstr): "unset", "match" (a match
                \* object, truthy) or "none" (None, falsy)
    stripres,   \* result of strip_version(idstr): NoStr or a string
    restrip,    \* result of strip_version(stripres): NoStr or a string
    cfgfile,    \* the file config_file names: [exists, lines]
    written,    \* what was written into it: [kind, hassec, section, defaults]
    Config,     \* outcome of ConfigFromFile(): [state, err, attrs]
    names,      \* the directory of filepath: path name -> inode, NoIno when absent
    data,       \* the bytes of each inode
    wr,         \* per caller of open_atomic: where the call is and what it holds
    pre,        \* what filepath held before any call: [exists, data]
    faults      \* failures of the operating system injected so far

idvars == <<idstr, matchres, stripres, restrip>>
cfgvars == <<cfgfile, written, Config>>
fsvars == <<names, data, wr, pre, faults>>

vars == <<idstr, matchres, stripres, restrip, cfgfile, written, Config,
          names, data, wr, pre, faults>>

(***************************************************************************)
(* Characters.  A character that can be written in a string of this module *)
(* is that one-character string; any other character is named by its code  *)
(* point, "U+" and at least four hexadecimal digits: Chr(201) = "U+00C9".  *)
(* The tables below are those of the Unicode database of the interpreter   *)
(* (version 14.0.0), which str.lower and \d of re go by.                   *)
(***************************************************************************)

HexDigits == <<"0", "1", "2", "3", "4", "5", "6", "7", "8", "9",
               "A", "B", "C", "D", "E", "F">>

RECURSIVE Hex(_)
Hex(n) == IF n < 16 THEN HexDigits[n + 1]
          ELSE Hex(n \div 16) \o HexDigits[(n % 16) + 1]

\* the characters of code points 32 to 126, in order
Printable ==
    <<
       " ", "!", "\"", "#", "$", "%", "&", "'", "(", ")", "*", "+",
       ",", "-", ".", "/", "0", "1", "2", "3", "4", "5", "6", "7",
       "8", "9", ":", ";", "<", "=", ">", "?", "@", "A", "B", "C",
       "D", "E", "F", "G", "H", "I", "J", "K", "L", "M", "N", "O",
       "P", "Q", "R", "S", "T", "U", "V", "W", "X", "Y", "Z", "[",
       "\\", "]", "^", "_", "U+0060", "a", "b", "c", "d", "e", "f", "g",
       "h", "i", "j", "k", "l", "m", "n", "o", "p", "q", "r", "s",
       "t", "u", "v", "w", "x", "y", "z", "{", "|", "}", "~" >>

\* chr(n): the character of code point n
Chr(n) ==
    IF n \in 32..126 THEN Printable[n - 31]
    ELSE IF n = 9 THEN "\t"
    ELSE IF n = 10 THEN "\n"
    ELSE IF n = 12 THEN "\f"
    ELSE IF n = 13 THEN "\r"
    ELSE "U+" \o (IF n < 16 THEN "000" ELSE IF n < 256 THEN "00"
                  ELSE IF n < 4096 THEN "0" ELSE "") \o Hex(n)

\* the characters of the code points in a table of ranges <<first, last>>
CharsIn(table) ==
    UNION {{Chr(n) : n \in table[i][1]..table[i][2]} : i \in 1..Len(table)}

\* the code points of the decimal digits (general category Nd)
DigitRanges ==
    <<
       <<48, 57>>, <<1632, 1641>>, <<1776, 1785>>, <<1984, 1993>>, <<2406, 2415>>, <<2534, 2543>>,
       <<2662, 2671>>, <<2790, 2799>>, <<2918, 2927>>, <<3046, 3055>>, <<3174, 3183>>, <<3302, 3311>>,
       <<3430, 3439>>, <<3558, 3567>>, <<3664, 3673>>, <<3792, 3801>>, <<3872, 3881>>, <<4160, 4169>>,
       <<4240, 4249>>, <<6112, 6121>>, <<6160, 6169>>, <<6470, 6479>>, <<6608, 6617>>, <<6784, 6793>>,
       <<6800, 6809>>, <<6992, 7001>>, <<7088, 7097>>, <<7232, 7241>>, <<7248, 7257>>, <<42528, 42537>>,
       <<43216, 43225>>, <<43264, 43273>>, <<43472, 43481>>, <<43504, 43513>>, <<43600, 43609>>, <<44016, 44025>>,
       <<65296, 65305>>, <<66720, 66729>>, <<68912, 68921>>, <<69734, 69743>>, <<69872, 69881>>, <<69942, 69951>>,
       <<70096, 70105>>, <<70384, 70393>>, <<70736, 70745>>, <<70864, 70873>>, <<71248, 71257>>, <<71360, 71369>>,
       <<71472, 71481>>, <<71904, 71913>>, <<72016, 72025>>, <<72784, 72793>>, <<73040, 73049>>, <<73120, 73129>>,
       <<92768, 92777>>, <<92864, 92873>>, <<93008, 93017>>, <<120782, 120831>>, <<123200, 123209>>, <<123632, 123641>>,
       <<125264, 125273>>, <<130032, 130041>> >>

Digits == CharsIn(DigitRanges)

\* \d of a str pattern compiled without re.ASCII: any Unicode decimal digit
IsDigit(c) == c \in Digits

\* the characters that have another character as their lower case, as
\* <<first, last, step, offset>>: each code point n = first, first + step, ..
\* up to last has the lower case n + offset
LowerRanges ==
    <<
       <<65, 90, 1, 32>>, <<192, 214, 1, 32>>, <<216, 222, 1, 32>>, <<256, 302, 2, 1>>,
       <<306, 310, 2, 1>>, <<313, 327, 2, 1>>, <<330, 374, 2, 1>>, <<376, 376, 1, -121>>,
       <<377, 381, 2, 1>>, <<385, 385, 1, 210>>, <<386, 388, 2, 1>>, <<390, 390, 1, 206>>,
       <<391, 391, 1, 1>>, <<393, 394, 1, 205>>, <<395, 395, 1, 1>>, <<398, 398, 1, 79>>,
       <<399, 399, 1, 202>>, <<400, 400, 1, 203>>, <<401, 401, 1, 1>>, <<403, 403, 1, 205>>,
       <<404, 404, 1, 207>>, <<406, 406, 1, 211>>, <<407, 407, 1, 209>>, <<408, 408, 1, 1>>,
       <<412, 412, 1, 211>>, <<413, 413, 1, 213>>, <<415, 415, 1, 214>>, <<416, 420, 2, 1>>,
       <<422, 422, 1, 218>>, <<423, 423, 1, 1>>, <<425, 425, 1, 218>>, <<428, 428, 1, 1>>,
       <<430, 430, 1, 218>>, <<431, 431, 1, 1>>, <<433, 434, 1, 217>>, <<435, 437, 2, 1>>,
       <<439, 439, 1, 219>>, <<440, 440, 1, 1>>, <<444, 444, 1, 1>>, <<452, 452, 1, 2>>,
       <<453, 453, 1, 1>>, <<455, 455, 1, 2>>, <<456, 456, 1, 1>>, <<458, 458, 1, 2>>,
       <<459, 475, 2, 1>>, <<478, 494, 2, 1>>, <<497, 497, 1, 2>>, <<498, 500, 2, 1>>,
       <<502, 502, 1, -97>>, <<503, 503, 1, -56>>, <<504, 542, 2, 1>>, <<544, 544, 1, -130>>,
       <<546, 562, 2, 1>>, <<570, 570, 1, 10795>>, <<571, 571, 1, 1>>, <<573, 573, 1, -163>>,
       <<574, 574, 1, 10792>>, <<577, 577, 1, 1>>, <<579, 579, 1, -195>>, <<580, 580, 1, 69>>,
       <<581, 581, 1, 71>>, <<582, 590, 2, 1>>, <<880, 882, 2, 1>>, <<886, 886, 1, 1>>,
       <<895, 895, 1, 116>>, <<902, 902, 1, 38>>, <<904, 906, 1, 37>>, <<908, 908, 1, 64>>,
       <<910, 911, 1, 63>>, <<913, 929, 1, 32>>, <<931, 939, 1, 32>>, <<975, 975, 1, 8>>,
       <<984, 1006, 2, 1>>, <<1012, 1012, 1, -60>>, <<1015, 1015, 1, 1>>, <<1017, 1017, 1, -7>>,
       <<1018, 1018, 1, 1>>, <<1021, 1023, 1, -130>>, <<1024, 1039, 1, 80>>, <<1040, 1071, 1, 32>>,
       <<1120, 1152, 2, 1>>, <<1162, 1214, 2, 1>>, <<1216, 1216, 1, 15>>, <<1217, 1229, 2, 1>>,
       <<1232, 1326, 2, 1>>, <<1329, 1366, 1, 48>>, <<4256, 4293, 1, 7264>>, <<4295, 4295, 1, 7264>>,
       <<4301, 4301, 1, 7264>>, <<5024, 5103, 1, 38864>>, <<5104, 5109, 1, 8>>, <<7312, 7354, 1, -3008>>,
       <<7357, 7359, 1, -3008>>, <<7680, 7828, 2, 1>>, <<7838, 7838, 1, -7615>>, <<7840, 7934, 2, 1>>,
       <<7944, 7951, 1, -8>>, <<7960, 7965, 1, -8>>, <<7976, 7983, 1, -8>>, <<7992, 7999, 1, -8>>,
       <<8008, 8013, 1, -8>>, <<8025, 8031, 2, -8>>, <<8040, 8047, 1, -8>>, <<8072, 8079, 1, -8>>,
       <<8088, 8095, 1, -8>>, <<8104, 8111, 1, -8>>, <<8120, 8121, 1, -8>>, <<8122, 8123, 1, -74>>,
       <<8124, 8124, 1, -9>>, <<8136, 8139, 1, -86>>, <<8140, 8140, 1, -9>>, <<8152, 8153, 1, -8>>,
       <<8154, 8155, 1, -100>>, <<8168, 8169, 1, -8>>, <<8170, 8171, 1, -112>>, <<8172, 8172, 1, -7>>,
       <<8184, 8185, 1, -128>>, <<8186, 8187, 1, -126>>, <<8188, 8188, 1, -9>>, <<8486, 8486, 1, -7517>>,
       <<8490, 8490, 1, -8383>>, <<8491, 8491, 1, -8262>>, <<8498, 8498, 1, 28>>, <<8544, 8559, 1, 16>>,
       <<8579, 8579, 1, 1>>, <<9398, 9423, 1, 26>>, <<11264, 11311, 1, 48>>, <<11360, 11360, 1, 1>>,
       <<11362, 11362, 1, -10743>>, <<11363, 11363, 1, -3814>>, <<11364, 11364, 1, -10727>>, <<11367, 11371, 2, 1>>,
       <<11373, 11373, 1, -10780>>, <<11374, 11374, 1, -10749>>, <<11375, 11375, 1, -10783>>, <<11376, 11376, 1, -10782>>,
       <<11378, 11378, 1, 1>>, <<11381, 11381, 1, 1>>, <<11390, 11391, 1, -10815>>, <<11392, 11490, 2, 1>>,
       <<11499, 11501, 2, 1>>, <<11506, 11506, 1, 1>>, <<42560, 42604, 2, 1>>, <<42624, 42650, 2, 1>>,
       <<42786, 42798, 2, 1>>, <<42802, 42862, 2, 1>>, <<42873, 42875, 2, 1>>, <<42877, 42877, 1, -35332>>,
       <<42878, 42886, 2, 1>>, <<42891, 42891, 1, 1>>, <<42893, 42893, 1, -42280>>, <<42896, 42898, 2, 1>>,
       <<42902, 42920, 2, 1>>, <<42922, 42922, 1, -42308>>, <<42923, 42923, 1, -42319>>, <<42924, 42924, 1, -42315>>,
       <<42925, 42925, 1, -42305>>, <<42926, 42926, 1, -42308>>, <<42928, 42928, 1, -42258>>, <<42929, 42929, 1, -42282>>,
       <<42930, 42930, 1, -42261>>, <<42931, 42931, 1, 928>>, <<42932, 42946, 2, 1>>, <<42948, 42948, 1, -48>>,
       <<42949, 42949, 1, -42307>>, <<42950, 42950, 1, -35384>>, <<42951, 42953, 2, 1>>, <<42960, 42960, 1, 1>>,
       <<42966, 42968, 2, 1>>, <<42997, 42997, 1, 1>>, <<65313, 65338, 1, 32>>, <<66560, 66599, 1, 40>>,
       <<66736, 66771, 1, 40>>, <<66928, 66938, 1, 39>>, <<66940, 66954, 1, 39>>, <<66956, 66962, 1, 39>>,
       <<66964, 66965, 1, 39>>, <<68736, 68786, 1, 64>>, <<71840, 71871, 1, 32>>, <<93760, 93791, 1, 32>>,
       <<125184, 125217, 1, 34>> >>

LowerPairs ==
    UNION {{<<Chr(n), Chr(n + LowerRanges[i][4])>> :
               n \in {LowerRanges[i][1] + k * LowerRanges[i][3] :
                         k \in 0..((LowerRanges[i][2] - LowerRanges[i][1])
                                       \div LowerRanges[i][3])}} :
           i \in 1..Len(LowerRanges)}

\* the characters that have another character as their lower case
HasLower == {p[1] : p \in LowerPairs}

LowerMap == [c \in HasLower |-> (CHOOSE p \in LowerPairs : p[1] = c)[2]]

\* the cased characters that are not case-ignorable
CasedRanges ==
    <<
       <<65, 90>>, <<97, 122>>, <<170, 170>>, <<181, 181>>, <<186, 186>>, <<192, 214>>,
       <<216, 246>>, <<248, 442>>, <<444, 447>>, <<452, 659>>, <<661, 687>>, <<880, 883>>,
       <<886, 887>>, <<891, 893>>, <<895, 895>>, <<902, 902>>, <<904, 906>>, <<908, 908>>,
       <<910, 929>>, <<931, 1013>>, <<1015, 1153>>, <<1162, 1327>>, <<1329, 1366>>, <<1376, 1416>>,
       <<4256, 4293>>, <<4295, 4295>>, <<4301, 4301>>, <<4304, 4346>>, <<4349, 4351>>, <<5024, 5109>>,
       <<5112, 5117>>, <<7296, 7304>>, <<7312, 7354>>, <<7357, 7359>>, <<7424, 7467>>, <<7531, 7543>>,
       <<7545, 7578>>, <<7680, 7957>>, <<7960, 7965>>, <<7968, 8005>>, <<8008, 8013>>, <<8016, 8023>>,
       <<8025, 8025>>, <<8027, 8027>>, <<8029, 8029>>, <<8031, 8061>>, <<8064, 8116>>, <<8118, 8124>>,
       <<8126, 8126>>, <<8130, 8132>>, <<8134, 8140>>, <<8144, 8147>>, <<8150, 8155>>, <<8160, 8172>>,
       <<8178, 8180>>, <<8182, 8188>>, <<8450, 8450>>, <<8455, 8455>>, <<8458, 8467>>, <<8469, 8469>>,
       <<8473, 8477>>, <<8484, 8484>>, <<8486, 8486>>, <<8488, 8488>>, <<8490, 8493>>, <<8495, 8500>>,
       <<8505, 8505>>, <<8508, 8511>>, <<8517, 8521>>, <<8526, 8526>>, <<8544, 8575>>, <<8579, 8580>>,
       <<9398, 9449>>, <<11264, 11387>>, <<11390, 11492>>, <<11499, 11502>>, <<11506, 11507>>, <<11520, 11557>>,
       <<11559, 11559>>, <<11565, 11565>>, <<42560, 42605>>, <<42624, 42651>>, <<42786, 42863>>, <<42865, 42887>>,
       <<42891, 42894>>, <<42896, 42954>>, <<42960, 42961>>, <<42963, 42963>>, <<42965, 42969>>, <<42997, 42998>>,
       <<43002, 43002>>, <<43824, 43866>>, <<43872, 43880>>, <<43888, 43967>>, <<64256, 64262>>, <<64275, 64279>>,
       <<65313, 65338>>, <<65345, 65370>>, <<66560, 66639>>, <<66736, 66771>>, <<66776, 66811>>, <<66928, 66938>>,
       <<66940, 66954>>, <<66956, 66962>>, <<66964, 66965>>, <<66967, 66977>>, <<66979, 66993>>, <<66995, 67001>>,
       <<67003, 67004>>, <<68736, 68786>>, <<68800, 68850>>, <<71840, 71903>>, <<93760, 93823>>, <<119808, 119892>>,
       <<119894, 119964>>, <<119966, 119967>>, <<119970, 119970>>, <<119973, 119974>>, <<119977, 119980>>, <<119982, 119993>>,
       <<119995, 119995>>, <<119997, 120003>>, <<120005, 120069>>, <<120071, 120074>>, <<120077, 120084>>, <<120086, 120092>>,
       <<120094, 120121>>, <<120123, 120126>>, <<120128, 120132>>, <<120134, 120134>>, <<120138, 120144>>, <<120146, 120485>>,
       <<120488, 120512>>, <<120514, 120538>>, <<120540, 120570>>, <<120572, 120596>>, <<120598, 120628>>, <<120630, 120654>>,
       <<120656, 120686>>, <<120688, 120712>>, <<120714, 120744>>, <<120746, 120770>>, <<120772, 120779>>, <<122624, 122633>>,
       <<122635, 122654>>, <<125184, 125251>>, <<127280, 127305>>, <<127312, 127337>>, <<127344, 127369>> >>

Cased == CharsIn(CasedRanges)

\* the case-ignorable characters
CaseIgnorableRanges ==
    <<
       <<39, 39>>, <<46, 46>>, <<58, 58>>, <<94, 94>>, <<96, 96>>, <<168, 168>>,
       <<173, 173>>, <<175, 175>>, <<180, 180>>, <<183, 184>>, <<688, 879>>, <<884, 885>>,
       <<890, 890>>, <<900, 901>>, <<903, 903>>, <<1155, 1161>>, <<1369, 1369>>, <<1375, 1375>>,
       <<1425, 1469>>, <<1471, 1471>>, <<1473, 1474>>, <<1476, 1477>>, <<1479, 1479>>, <<1524, 1524>>,
       <<1536, 1541>>, <<1552, 1562>>, <<1564, 1564>>, <<1600, 1600>>, <<1611, 1631>>, <<1648, 1648>>,
       <<1750, 1757>>, <<1759, 1768>>, <<1770, 1773>>, <<1807, 1807>>, <<1809, 1809>>, <<1840, 1866>>,
       <<1958, 1968>>, <<2027, 2037>>, <<2042, 2042>>, <<2045, 2045>>, <<2070, 2093>>, <<2137, 2139>>,
       <<2184, 2184>>, <<2192, 2193>>, <<2200, 2207>>, <<2249, 2306>>, <<2362, 2362>>, <<2364, 2364>>,
       <<2369, 2376>>, <<2381, 2381>>, <<2385, 2391>>, <<2402, 2403>>, <<2417, 2417>>, <<2433, 2433>>,
       <<2492, 2492>>, <<2497, 2500>>, <<2509, 2509>>, <<2530, 2531>>, <<2558, 2558>>, <<2561, 2562>>,
       <<2620, 2620>>, <<2625, 2626>>, <<2631, 2632>>, <<2635, 2637>>, <<2641, 2641>>, <<2672, 2673>>,
       <<2677, 2677>>, <<2689, 2690>>, <<2748, 2748>>, <<2753, 2757>>, <<2759, 2760>>, <<2765, 2765>>,
       <<2786, 2787>>, <<2810, 2815>>, <<2817, 2817>>, <<2876, 2876>>, <<2879, 2879>>, <<2881, 2884>>,
       <<2893, 2893>>, <<2901, 2902>>, <<2914, 2915>>, <<2946, 2946>>, <<3008, 3008>>, <<3021, 3021>>,
       <<3072, 3072>>, <<3076, 3076>>, <<3132, 3132>>, <<3134, 3136>>, <<3142, 3144>>, <<3146, 3149>>,
       <<3157, 3158>>, <<3170, 3171>>, <<3201, 3201>>, <<3260, 3260>>, <<3263, 3263>>, <<3270, 3270>>,
       <<3276, 3277>>, <<3298, 3299>>, <<3328, 3329>>, <<3387, 3388>>, <<3393, 3396>>, <<3405, 3405>>,
       <<3426, 3427>>, <<3457, 3457>>, <<3530, 3530>>, <<3538, 3540>>, <<3542, 3542>>, <<3633, 3633>>,
       <<3636, 3642>>, <<3654, 3662>>, <<3761, 3761>>, <<3764, 3772>>, <<3782, 3782>>, <<3784, 3789>>,
       <<3864, 3865>>, <<3893, 3893>>, <<3895, 3895>>, <<3897, 3897>>, <<3953, 3966>>, <<3968, 3972>>,
       <<3974, 3975>>, <<3981, 3991>>, <<3993, 4028>>, <<4038, 4038>>, <<4141, 4144>>, <<4146, 4151>>,
       <<4153, 4154>>, <<4157, 4158>>, <<4184, 4185>>, <<4190, 4192>>, <<4209, 4212>>, <<4226, 4226>>,
       <<4229, 4230>>, <<4237, 4237>>, <<4253, 4253>>, <<4348, 4348>>, <<4957, 4959>>, <<5906, 5908>>,
       <<5938, 5939>>, <<5970, 5971>>, <<6002, 6003>>, <<6068, 6069>>, <<6071, 6077>>, <<6086, 6086>>,
       <<6089, 6099>>, <<6103, 6103>>, <<6109, 6109>>, <<6155, 6159>>, <<6211, 6211>>, <<6277, 6278>>,
       <<6313, 6313>>, <<6432, 6434>>, <<6439, 6440>>, <<6450, 6450>>, <<6457, 6459>>, <<6679, 6680>>,
       <<6683, 6683>>, <<6742, 6742>>, <<6744, 6750>>, <<6752, 6752>>, <<6754, 6754>>, <<6757, 6764>>,
       <<6771, 6780>>, <<6783, 6783>>, <<6823, 6823>>, <<6832, 6862>>, <<6912, 6915>>, <<6964, 6964>>,
       <<6966, 6970>>, <<6972, 6972>>, <<6978, 6978>>, <<7019, 7027>>, <<7040, 7041>>, <<7074, 7077>>,
       <<7080, 7081>>, <<7083, 7085>>, <<7142, 7142>>, <<7144, 7145>>, <<7149, 7149>>, <<7151, 7153>>,
       <<7212, 7219>>, <<7222, 7223>>, <<7288, 7293>>, <<7376, 7378>>, <<7380, 7392>>, <<7394, 7400>>,
       <<7405, 7405>>, <<7412, 7412>>, <<7416, 7417>>, <<7468, 7530>>, <<7544, 7544>>, <<7579, 7679>>,
       <<8125, 8125>>, <<8127, 8129>>, <<8141, 8143>>, <<8157, 8159>>, <<8173, 8175>>, <<8189, 8190>>,
       <<8203, 8207>>, <<8216, 8217>>, <<8228, 8228>>, <<8231, 8231>>, <<8234, 8238>>, <<8288, 8292>>,
       <<8294, 8303>>, <<8305, 8305>>, <<8319, 8319>>, <<8336, 8348>>, <<8400, 8432>>, <<11388, 11389>>,
       <<11503, 11505>>, <<11631, 11631>>, <<11647, 11647>>, <<11744, 11775>>, <<11823, 11823>>, <<12293, 12293>>,
       <<12330, 12333>>, <<12337, 12341>>, <<12347, 12347>>, <<12441, 12446>>, <<12540, 12542>>, <<40981, 40981>>,
       <<42232, 42237>>, <<42508, 42508>>, <<42607, 42610>>, <<42612, 42621>>, <<42623, 42623>>, <<42652, 42655>>,
       <<42736, 42737>>, <<42752, 42785>>, <<42864, 42864>>, <<42888, 42890>>, <<42994, 42996>>, <<43000, 43001>>,
       <<43010, 43010>>, <<43014, 43014>>, <<43019, 43019>>, <<43045, 43046>>, <<43052, 43052>>, <<43204, 43205>>,
       <<43232, 43249>>, <<43263, 43263>>, <<43302, 43309>>, <<43335, 43345>>, <<43392, 43394>>, <<43443, 43443>>,
       <<43446, 43449>>, <<43452, 43453>>, <<43471, 43471>>, <<43493, 43494>>, <<43561, 43566>>, <<43569, 43570>>,
       <<43573, 43574>>, <<43587, 43587>>, <<43596, 43596>>, <<43632, 43632>>, <<43644, 43644>>, <<43696, 43696>>,
       <<43698, 43700>>, <<43703, 43704>>, <<43710, 43711>>, <<43713, 43713>>, <<43741, 43741>>, <<43756, 43757>>,
       <<43763, 43764>>, <<43766, 43766>>, <<43867, 43871>>, <<43881, 43883>>, <<44005, 44005>>, <<44008, 44008>>,
       <<44013, 44013>>, <<64286, 64286>>, <<64434, 64450>>, <<65024, 65039>>, <<65043, 65043>>, <<65056, 65071>>,
       <<65106, 65106>>, <<65109, 65109>>, <<65279, 65279>>, <<65287, 65287>>, <<65294, 65294>>, <<65306, 65306>>,
       <<65342, 65342>>, <<65344, 65344>>, <<65392, 65392>>, <<65438, 65439>>, <<65507, 65507>>, <<65529, 65531>>,
       <<66045, 66045>>, <<66272, 66272>>, <<66422, 66426>>, <<67456, 67461>>, <<67463, 67504>>, <<67506, 67514>>,
       <<68097, 68099>>, <<68101, 68102>>, <<68108, 68111>>, <<68152, 68154>>, <<68159, 68159>>, <<68325, 68326>>,
       <<68900, 68903>>, <<69291, 69292>>, <<69446, 69456>>, <<69506, 69509>>, <<69633, 69633>>, <<69688, 69702>>,
       <<69744, 69744>>, <<69747, 69748>>, <<69759, 69761>>, <<69811, 69814>>, <<69817, 69818>>, <<69821, 69821>>,
       <<69826, 69826>>, <<69837, 69837>>, <<69888, 69890>>, <<69927, 69931>>, <<69933, 69940>>, <<70003, 70003>>,
       <<70016, 70017>>, <<70070, 70078>>, <<70089, 70092>>, <<70095, 70095>>, <<70191, 70193>>, <<70196, 70196>>,
       <<70198, 70199>>, <<70206, 70206>>, <<70367, 70367>>, <<70371, 70378>>, <<70400, 70401>>, <<70459, 70460>>,
       <<70464, 70464>>, <<70502, 70508>>, <<70512, 70516>>, <<70712, 70719>>, <<70722, 70724>>, <<70726, 70726>>,
       <<70750, 70750>>, <<70835, 70840>>, <<70842, 70842>>, <<70847, 70848>>, <<70850, 70851>>, <<71090, 71093>>,
       <<71100, 71101>>, <<71103, 71104>>, <<71132, 71133>>, <<71219, 71226>>, <<71229, 71229>>, <<71231, 71232>>,
       <<71339, 71339>>, <<71341, 71341>>, <<71344, 71349>>, <<71351, 71351>>, <<71453, 71455>>, <<71458, 71461>>,
       <<71463, 71467>>, <<71727, 71735>>, <<71737, 71738>>, <<71995, 71996>>, <<71998, 71998>>, <<72003, 72003>>,
       <<72148, 72151>>, <<72154, 72155>>, <<72160, 72160>>, <<72193, 72202>>, <<72243, 72248>>, <<72251, 72254>>,
       <<72263, 72263>>, <<72273, 72278>>, <<72281, 72283>>, <<72330, 72342>>, <<72344, 72345>>, <<72752, 72758>>,
       <<72760, 72765>>, <<72767, 72767>>, <<72850, 72871>>, <<72874, 72880>>, <<72882, 72883>>, <<72885, 72886>>,
       <<73009, 73014>>, <<73018, 73018>>, <<73020, 73021>>, <<73023, 73029>>, <<73031, 73031>>, <<73104, 73105>>,
       <<73109, 73109>>, <<73111, 73111>>, <<73459, 73460>>, <<78896, 78904>>, <<92912, 92916>>, <<92976, 92982>>,
       <<92992, 92995>>, <<94031, 94031>>, <<94095, 94111>>, <<94176, 94177>>, <<94179, 94180>>, <<110576, 110579>>,
       <<110581, 110587>>, <<110589, 110590>>, <<113821, 113822>>, <<113824, 113827>>, <<118528, 118573>>, <<118576, 118598>>,
       <<119143, 119145>>, <<119155, 119170>>, <<119173, 119179>>, <<119210, 119213>>, <<119362, 119364>>, <<121344, 121398>>,
       <<121403, 121452>>, <<121461, 121461>>, <<121476, 121476>>, <<121499, 121503>>, <<121505, 121519>>, <<122880, 122886>>,
       <<122888, 122904>>, <<122907, 122913>>, <<122915, 122916>>, <<122918, 122922>>, <<123184, 123197>>, <<123566, 123566>>,
       <<123628, 123631>>, <<125136, 125142>>, <<125252, 125259>>, <<127995, 127999>>, <<917505, 917505>>, <<917536, 917631>>,
       <<917760, 917999>> >>

CaseIgnorable == CharsIn(CaseIgnorableRanges)

\* U+0130 (capital I with dot above) and the two characters of its lower
\* case; U+03A3 (capital sigma) and U+03C2 (final small sigma)
CapitalIDot == Chr(304)
SmallIDot == <<"i", Chr(775)>>
CapitalSigma == Chr(931)
FinalSmallSigma == Chr(962)

\* str.lower of a one-character string: the lower case of the character
\* (two characters for U+0130), the character itself when it has none
Lower(c) ==
    IF c = CapitalIDot THEN SmallIDot
    ELSE IF c \in HasLower THEN <<LowerMap[c]>>
    ELSE <<c>>

\* the position of the nearest character before i (dir = -1) or after i
\* (dir = 1) that is not case-ignorable; 0 or Len(s) + 1 when there is none
RECURSIVE Skip(_, _, _)
Skip(s, i, dir) ==
    LET j == i + dir IN
    IF j < 1 \/ j > Len(s) \/ s[j] \notin CaseIgnorable THEN j
    ELSE Skip(s, j, dir)

\* the capital sigma at position i is final: a cased character is before it
\* and none is after it, case-ignorable characters skipped
FinalSigma(s, i) ==
    LET b == Skip(s, i, -1)
        a == Skip(s, i, 1)
    IN  /\ b >= 1 /\ s[b] \in Cased
        /\ (a > Len(s) \/ s[a] \notin Cased)

\* str.lower: every character in lower case, a final capital sigma as the
\* final small sigma
RECURSIVE LowerFrom(_, _)
LowerFrom(s, i) ==
    IF i > Len(s) THEN <<>>
    ELSE (IF s[i] = CapitalSigma /\ FinalSigma(s, i) THEN <<FinalSmallSigma>>
          ELSE Lower(s[i]))
             \o LowerFrom(s, i + 1)

(***************************************************************************)
(* Strings                                                                 *)
(***************************************************************************)

\* longest identifier string explored
MaxIdLen == 5

\* the characters identifier strings are drawn from: a digit, the dot, the
\* version marker, a letter that the pattern never accepts, a newline, and a
\* decimal digit outside ASCII (U+0661, ARABIC-INDIC DIGIT ONE)
IdChars == {"1", ".", "v", "a", "\n", Chr(1633)}

RECURSIVE StringsUpTo(_, _)
StringsUpTo(chars, n) ==
    IF n = 0 THEN {<<>>}
    ELSE LET shorter == StringsUpTo(chars, n - 1)
         IN  shorter \cup {Append(s, c) : s \in {t \in shorter : Len(t) = n - 1}, c \in chars}

\* stands for "no string yet" ("unset" is not a character)
NoStr == <<"unset">>

\* the state of the variables of the operations a specification leaves alone
IdleIds ==
    /\ idstr = <<>>
    /\ matchres = "unset"
    /\ stripres = NoStr
    /\ restrip = NoStr

IdleConfig ==
    /\ cfgfile = [exists |-> FALSE, lines |-> <<>>]
    /\ written = [kind |-> "ok", hassec |-> FALSE, section |-> <<>>, defaults |-> <<>>]
    /\ Config = [state |-> "unbuilt", err |-> "", attrs |-> <<>>]

IdleFiles ==
    /\ names = <<>>
    /\ data = <<>>
    /\ wr = <<>>
    /\ pre = [exists |-> FALSE, data |-> <<>>]
    /\ faults = 0

(***************************************************************************)
(* global settings: ConfigFromFile                                         *)
(***************************************************************************)

\* vars_list of _populate_vars, in the order the loop reads it; an option
\* name is the sequence of its characters
vars_list ==
    << <<"d", "a", "t", "a", "_", "r", "o", "o", "t">>,
       <<"d", "b", "_", "p", "a", "t", "h">>,
       <<"p", "d", "f", "_", "d", "i", "r">>,
       <<"t", "x", "t", "_", "d", "i", "r">>,
       <<"t", "h", "u", "m", "b", "s", "_", "d", "i", "r">>,
       <<"t", "f", "i", "d", "f", "_", "p", "a", "t", "h">>,
       <<"m", "e", "t", "a", "_", "p", "a", "t", "h">>,
       <<"s", "i", "m", "_", "p", "a", "t", "h">>,
       <<"u", "s", "e", "r", "_", "s", "i", "m", "_", "p", "a", "t", "h">>,
       <<"d", "b", "_", "s", "e", "r", "v", "e", "_", "p", "a", "t", "h">>,
       <<"d", "a", "t", "a", "b", "a", "s", "e", "_", "p", "a", "t", "h">>,
       <<"s", "e", "r", "v", "e", "_", "c", "a", "c", "h", "e", "_", "p", "a", "t", "h">>,
       <<"b", "e", "g", "_", "f", "o", "r", "_", "h", "o", "s", "t", "i", "n", "g", "_",
         "m", "o", "n", "e", "y">>,
       <<"b", "a", "n", "n", "e", "d", "_", "p", "a", "t", "h">>,
       <<"t", "m", "p", "_", "d", "i", "r">> >>

RequiredKeys == {vars_list[i] : i \in 1..Len(vars_list)}

\* the section _check_config and _populate_vars name
arxiv_sanity == <<"a", "r", "x", "i", "v", "-", "s", "a", "n", "i", "t", "y">>

\* configparser.DEFAULTSECT
DEFAULTSECT == <<"D", "E", "F", "A", "U", "L", "T">>

\* configparser.MAX_INTERPOLATION_DEPTH
MAX_INTERPOLATION_DEPTH == 10

\* ConfigParser.optionxform: the option name, lower-cased (str.lower)
optionxform(chars) == LowerFrom(chars, 1)

\* the code points of the white-space characters: str.strip and str.rstrip
\* remove them, \s of re matches them and \S does not
SpaceRanges ==
    << <<9, 13>>, <<28, 32>>, <<133, 133>>, <<160, 160>>, <<5760, 5760>>,
       <<8192, 8202>>, <<8232, 8233>>, <<8239, 8239>>, <<8287, 8287>>,
       <<12288, 12288>> >>

Whitespace == CharsIn(SpaceRanges)

\* the position of the first character of s that is not white space,
\* Len(s) + 1 when there is none
FirstNonSpace(s) ==
    CHOOSE i \in 1..(Len(s) + 1) :
        /\ i = Len(s) + 1 \/ s[i] \notin Whitespace
        /\ \A j \in 1..(i - 1) : s[j] \in Whitespace

\* the position of the last character of s that is not white space, 0 when
\* there is none
LastNonSpace(s) ==
    CHOOSE i \in 0..Len(s) :
        /\ i = 0 \/ s[i] \notin Whitespace
        /\ \A j \in (i + 1)..Len(s) : s[j] \in Whitespace

\* str.find for one character: the first position of c in s, 0 when absent
Find(s, c) ==
    IF \A i \in 1..Len(s) : s[i] # c THEN 0
    ELSE CHOOSE i \in 1..Len(s) : s[i] = c /\ \A j \in 1..(i - 1) : s[j] # c

\* a Python slice in one-based, inclusive positions: what lies outside the
\* string is left out
Slice(s, lo, hi) ==
    LET h == IF hi > Len(s) THEN Len(s) ELSE hi
    IN  IF lo > h THEN <<>> ELSE SubSeq(s, lo, h)

\* rest[lo:] in one-based positions
From(s, lo) == Slice(s, lo, Len(s))

\* str.rstrip() and str.strip()
rstrip(s) == Slice(s, 1, LastNonSpace(s))
strip(s) == Slice(s, FirstNonSpace(s), LastNonSpace(s))

\* '\n'.join(val)
RECURSIVE JoinLines(_)
JoinLines(val) ==
    IF val = <<>> THEN <<>>
    ELSE IF Len(val) = 1 THEN val[1]
    ELSE val[1] \o <<"\n">> \o JoinLines(Tail(val))

\* None as the value of sectname and optname of _read
NoName == <<"None">>

\* the dictionary d with d[k] = v
Put(d, k, v) == [x \in DOMAIN d \cup {k} |-> IF x = k THEN v ELSE d[x]]

\* _read before the first line: the parser holds no section and no default,
\* cursect = sectname = optname = None, indent_level = 0, e = None; added is
\* elements_added, with a section written <<sectname, NoName>> and an
\* option <<sectname, optname>>; err is the exception _read has raised, ""
\* while it has raised none
ReadStart ==
    [sections |-> <<>>, defaults |-> <<>>, added |-> {}, sectname |-> NoName,
     optname |-> NoName, indent |-> 0, e |-> FALSE, err |-> ""]

\* cursect: the dictionary of the section the lines now belong to
Cursect(st) ==
    IF st.sectname = DEFAULTSECT THEN st.defaults ELSE st.sections[st.sectname]

\* cursect[name] = val
SetOption(st, name, val) ==
    IF st.sectname = DEFAULTSECT
        THEN [st EXCEPT !.defaults = Put(@, name, val)]
        ELSE [st EXCEPT !.sections = Put(@, st.sectname, Put(@[st.sectname], name, val))]

\* "cursect is not None and optname": the line can belong to the value of
\* the option read last
InOption(st) == st.sectname # NoName /\ st.optname # NoName /\ st.optname # <<>>

\* cursect[optname].append(value)
AppendValue(st, value) ==
    SetOption(st, st.optname, Append(Cursect(st)[st.optname], value))

\* SECTCRE.match(value), \[(?P<header>.+)\]: value begins with "[" and has a
\* "]" after at least one more character; the header runs to the last "]"
SectEnd(value) ==
    IF Len(value) >= 3 /\ value[1] = "[" /\ \E j \in 3..Len(value) : value[j] = "]"
        THEN CHOOSE j \in 3..Len(value) :
                 value[j] = "]" /\ \A k \in (j + 1)..Len(value) : value[k] # "]"
        ELSE 0

\* a section header names section sectname
ReadHeader(st, sectname) ==
    IF sectname \in DOMAIN st.sections
        THEN IF <<sectname, NoName>> \in st.added
                 THEN [st EXCEPT !.err = "DuplicateSectionError"]
                 ELSE [st EXCEPT !.sectname = sectname, !.optname = NoName,
                                 !.added = @ \cup {<<sectname, NoName>>}]
    ELSE IF sectname = DEFAULTSECT
        THEN [st EXCEPT !.sectname = sectname, !.optname = NoName]
    ELSE [st EXCEPT !.sections = Put(@, sectname, <<>>),
                    !.sectname = sectname, !.optname = NoName,
                    !.added = @ \cup {<<sectname, NoName>>}]

\* the position of the first delimiter ("=" or ":") of value, 0 when it has
\* none and _optcre does not match
DelimiterAt(value) ==
    LET eq == Find(value, "=")
        co == Find(value, ":")
    IN  IF eq = 0 THEN co ELSE IF co = 0 THEN eq ELSE IF eq < co THEN eq ELSE co

\* an option line: _optcre gives the option (what is before the first
\* delimiter, white space before the delimiter left out) and the value
\* (what is after it); an empty option name is a parsing error, and the
\* line is read all the same
ReadOption(st, value) ==
    LET p == DelimiterAt(value) IN
    IF p = 0 THEN [st EXCEPT !.e = TRUE]
    ELSE LET option == rstrip(Slice(value, 1, p - 1))
             optname == optionxform(rstrip(option))
             optval == strip(From(value, p + 1))
             st1 == [st EXCEPT !.e = @ \/ option = <<>>]
         IN  IF <<st.sectname, optname>> \in st.added
                 THEN [st1 EXCEPT !.err = "DuplicateOptionError"]
                 ELSE SetOption([st1 EXCEPT !.optname = optname,
                                            !.added = @ \cup {<<st.sectname, optname>>}],
                                optname, <<optval>>)

\* the body of the loop of _read for one line of the file
ReadLine(st, line) ==
    LET stripped == strip(line)
        comment == stripped # <<>> /\ stripped[1] \in {"#", ";"}
        value == IF comment THEN <<>> ELSE stripped
        cur_indent_level == FirstNonSpace(line) - 1
    IN  IF value = <<>>
            THEN IF ~comment /\ InOption(st) THEN AppendValue(st, <<>>) ELSE st
        ELSE IF InOption(st) /\ cur_indent_level > st.indent
            THEN AppendValue(st, value)
        ELSE LET st1 == [st EXCEPT !.indent = cur_indent_level]
                 j == SectEnd(value)
             IN  IF j # 0 THEN ReadHeader(st1, Slice(value, 2, j - 1))
                 ELSE IF st.sectname = NoName
                     THEN [st1 EXCEPT !.err = "MissingSectionHeaderError"]
                 ELSE ReadOption(st1, value)

\* the loop of _read over the lines lo..hi, in their order: an exception
\* ends it (the lines are taken half by half, the first half before the
\* second)
RECURSIVE ReadFrom(_, _, _, _)
ReadFrom(st, lines, lo, hi) ==
    IF st.err # "" \/ lo > hi THEN st
    ELSE IF lo = hi THEN ReadLine(st, lines[lo])
    ELSE LET mid == (lo + hi) \div 2
             st1 == ReadFrom(st, lines, lo, mid)
         IN  IF st1.err # "" THEN st1 ELSE ReadFrom(st1, lines, mid + 1, hi)

\* _join_multiline_values for one dictionary: the lines of each value joined
\* with newlines, white space at the end removed
join_multiline_values(options) ==
    [name \in DOMAIN options |-> rstrip(JoinLines(options[name]))]

\* a byte of the file that is no UTF-8 (0xFF), where it stands in a line
BadByte == "0xFF"

\* TextIOWrapper._CHUNK_SIZE: the bytes the text layer of open() reads and
\* decodes at a time
CHUNK_SIZE == 8192

\* the characters UTF-8 writes with one byte and with two bytes
OneByte == CharsIn(<< <<0, 127>> >>) \cup {BadByte}
TwoBytes == CharsIn(<< <<128, 2047>> >>)

\* the number of bytes of character c in the file (a character above
\* U+FFFF is written "U+" and five or six digits)
Utf8Len(c) ==
    IF c \in OneByte THEN 1
    ELSE IF c \in TwoBytes THEN 2
    ELSE IF Len(c) = 6 THEN 3
    ELSE 4

\* the number of bytes of the characters lo..hi of s
RECURSIVE Utf8Bytes(_, _, _)
Utf8Bytes(s, lo, hi) ==
    IF lo > hi THEN 0
    ELSE IF lo = hi THEN Utf8Len(s[lo])
    ELSE LET mid == (lo + hi) \div 2
         IN  Utf8Bytes(s, lo, mid) + Utf8Bytes(s, mid + 1, hi)

\* the number of bytes of a line in the file, its newline byte counted
LineBytes(line) == Utf8Bytes(line, 1, Len(line)) + 1

\* sizes[lo] + ... + sizes[hi]
RECURSIVE Total(_, _, _)
Total(sizes, lo, hi) ==
    IF lo > hi THEN 0
    ELSE IF lo = hi THEN sizes[lo]
    ELSE LET mid == (lo + hi) \div 2
         IN  Total(sizes, lo, mid) + Total(sizes, mid + 1, hi)

\* the lines the file object hands to _read before decoding raises: those
\* that end in the buffers before the one that holds the first undecodable
\* byte; all of them when the file decodes
DecodedLines(lines) ==
    LET badlines == {i \in 1..Len(lines) : Find(lines[i], BadByte) # 0} IN
    IF badlines = {} THEN lines
    ELSE LET b == CHOOSE i \in badlines : \A j \in badlines : i <= j
             sizes == [i \in 1..(b - 1) |-> LineBytes(lines[i])]
             \* the offset (from 1) of the undecodable byte in the file
             bad == Total(sizes, 1, b - 1)
                        + Utf8Bytes(lines[b], 1, Find(lines[b], BadByte) - 1) + 1
             \* the bytes of the buffers before its buffer
             limit == ((bad - 1) \div CHUNK_SIZE) * CHUNK_SIZE
             n == CHOOSE n \in 0..(b - 1) :
                      /\ Total(sizes, 1, n) <= limit
                      /\ n = b - 1 \/ Total(sizes, 1, n + 1) > limit
         IN  SubSeq(lines, 1, n)

\* what the parser holds when it has read nothing
NoParser == [err |-> "", sections |-> <<>>, defaults |-> <<>>]

\* parser.read(config_file): a file that cannot be opened is passed over;
\* _read raises at once for a duplicate section, a duplicate option and an
\* option before any section header; a byte that cannot be decoded raises
\* when its buffer is read, after the lines of the buffers before it have
\* been parsed; the lines that are neither header nor option raise at the
\* end
read(file) ==
    IF ~file.exists THEN NoParser
    ELSE LET decoded == DecodedLines(file.lines)
             st == ReadFrom(ReadStart, decoded, 1, Len(decoded))
         IN
         IF st.err # "" THEN [NoParser EXCEPT !.err = st.err]
         ELSE IF Len(decoded) < Len(file.lines)
             THEN [NoParser EXCEPT !.err = "UnicodeDecodeError"]
         ELSE IF st.e THEN [NoParser EXCEPT !.err = "ParsingError"]
         ELSE [err |-> "",
               sections |-> [s \in DOMAIN st.sections |->
                                join_multiline_values(st.sections[s])],
               defaults |-> join_multiline_values(st.defaults)]

Ok(out) == [err |-> "", out |-> out]
Raise(err) == [err |-> err, out |-> <<>>]

\* accum.append(prefix) before the pieces a later step appends
Prepend(prefix, res) == IF res.err # "" THEN res ELSE Ok(prefix \o res.out)

\* BasicInterpolation._interpolate_some: expands %% to % and %(name)s to the
\* (recursively expanded) raw value of option name in map; raises on a
\* reference to a missing option, on any other use of % and on depth > 10
RECURSIVE InterpolateSome(_, _, _)
InterpolateSome(rest, map, depth) ==
    IF depth > MAX_INTERPOLATION_DEPTH THEN Raise("InterpolationDepthError")
    ELSE IF rest = <<>> THEN Ok(<<>>)
    ELSE LET p == Find(rest, "%") IN
         IF p = 0 THEN Ok(rest)
         ELSE LET r == From(rest, p)
                  head == Slice(rest, 1, p - 1)
                  c == Slice(r, 2, 2)
              IN  IF c = <<"%">>
                      THEN Prepend(head \o <<"%">>, InterpolateSome(From(r, 3), map, depth))
                  ELSE IF c = <<"(">>
                      THEN LET q == Find(r, ")") IN
                           \* _KEYCRE = %\(([^)]+)\)s must match at r
                           IF q < 4 \/ Slice(r, q + 1, q + 1) # <<"s">>
                               THEN Raise("InterpolationSyntaxError")
                           ELSE LET var == optionxform(Slice(r, 3, q - 1)) IN
                                IF var \notin DOMAIN map
                                    THEN Raise("InterpolationMissingOptionError")
                                ELSE LET v == map[var]
                                         sub == IF Find(v, "%") # 0
                                                    THEN InterpolateSome(v, map, depth + 1)
                                                    ELSE Ok(v)
                                     IN  IF sub.err # "" THEN sub
                                         ELSE Prepend(head \o sub.out,
                                                      InterpolateSome(From(r, q + 2), map, depth))
                  ELSE Raise("InterpolationSyntaxError")

\* a lookup that lets [DEFAULT] override the section
DefaultsFirst(parser) ==
    LET section == parser.sections[arxiv_sanity] IN
    [k \in DOMAIN section \cup DOMAIN parser.defaults |->
        IF k \in DOMAIN parser.defaults THEN parser.defaults[k] ELSE section[k]]

\* RawConfigParser._unify_values: the options of the section, then those of
\* [DEFAULT] for the names the section does not set
unify_values(parser) ==
    LET section == parser.sections[arxiv_sanity] IN
    [k \in DOMAIN section \cup DOMAIN parser.defaults |->
        IF k \in DOMAIN section THEN section[k] ELSE parser.defaults[k]]

\* a lookup with fallback='' in place of the NoOptionError
ParserGetFallback(parser, option) ==
    LET d == unify_values(parser) IN
    IF optionxform(option) \notin DOMAIN d THEN Ok(<<>>)
    ELSE InterpolateSome(d[optionxform(option)], d, 1)

\* parser.get('arxiv-sanity', var): the value looked up in the unified
\* options, then interpolated (BasicInterpolation.before_get)
ParserGet(parser, option) ==
    LET d == unify_values(parser) IN
    IF optionxform(option) \notin DOMAIN d THEN Raise("NoOptionError")
    ELSE InterpolateSome(d[optionxform(option)], d, 1)

\* _populate_vars from the i-th name on: attrs holds what setattr has set;
\* the first parser.get that raises ends the loop with that error
RECURSIVE PopulateFrom(_, _, _)
PopulateFrom(parser, i, attrs) ==
    IF i > Len(vars_list) THEN [state |-> "built", err |-> "", attrs |-> attrs]
    ELSE LET var == vars_list[i]
             val == ParserGet(parser, var)
         IN  IF val.err # ""
                 THEN [state |-> "failed", err |-> val.err, attrs |-> <<>>]
                 ELSE PopulateFrom(parser, i + 1, Put(attrs, var, val.out))

populate_vars(parser) == PopulateFrom(parser, 1, <<>>)

\* _check_config: TRUE when parser.has_section('arxiv-sanity') (else
\* ValueError is raised)
check_config(parser) == arxiv_sanity \in DOMAIN parser.sections

\* ConfigFromFile.__init__: parser.read, _check_config, _populate_vars; an
\* error of any of them leaves the caller without an object
ConfigFromFile(file) ==
    LET parser == read(file) IN
    IF parser.err # ""
        THEN [state |-> "failed", err |-> parser.err, attrs |-> <<>>]
    ELSE IF ~check_config(parser)
        THEN [state |-> "failed", err |-> "ValueError", attrs |-> <<>>]
    ELSE populate_vars(parser)

(***************************************************************************)
(* The configuration files ConfigFromFile is constructed from.  A file is  *)
(* [exists, lines]: whether it can be opened, and its lines without their  *)
(* line ends (a line holds no "\n" and no "\r", and each ends with one     *)
(* newline byte in the file); a byte of the file that is no UTF-8 stands   *)
(* in its line as BadByte.  With each file goes what was written into it:  *)
(* the error the file has for configparser ("ok" when none), whether it    *)
(* has the section [arxiv-sanity], and the value of each option of that    *)
(* section and of [DEFAULT].                                               *)
(***************************************************************************)

\* the most required keys a generated file leaves out of [arxiv-sanity]
MaxMissing == 2

\* the positions in vars_list of the keys a file may leave out (the first
\* two, one in the middle, the last)
MissingCandidates == {1, 2, 13, 15}

MissingSets == {m \in SUBSET MissingCandidates : Cardinality(m) <= MaxMissing}

\* the position of a required key in vars_list
KeyIndex(k) == CHOOSE j \in 1..Len(vars_list) : vars_list[j] = k

\* the characters of the values written in generated files
Letters == <<"a", "b", "c", "d", "e", "f", "g", "h", "i", "j", "k", "l", "m", "n", "o">>

\* an ordinary value, different for every key
PlainValue(i) == <<"/", Letters[i]>>

RefDataRoot == <<"%", "(", "d", "a", "t", "a", "_", "r", "o", "o", "t", ")", "s">>
RefUpper == <<"%", "(", "D", "A", "T", "a", "_", "R", "o", "o", "t", ")", "s">>

\* references whose names have letters outside ASCII: U+00C9 (E acute), and
\* a capital sigma (U+03A3) at the end of a word
RefAccent == <<"%", "(", Chr(201), ")", "s">>
RefSigma == <<"%", "(", "A", Chr(931), ")", "s">>

\* the lower-case names those references look up
ExtraKeys == {<<Chr(233)>>, <<"a", Chr(962)>>}

\* the values tried for one key of a file: plain, empty, with %%, with a
\* lone %, with references (resolved, in upper case, with letters outside
\* ASCII, unknown, unterminated)
RawValues ==
    { <<"/", "x">>,
      <<>>,
      <<"5", "%", "%">>,
      <<"5", "%">>,
      RefDataRoot \o <<"/", "x">>,
      RefUpper,
      RefAccent,
      RefSigma,
      <<"%", "(", "x", ")", "s">>,
      <<"%", "(", "d", ")">> }

\* the keys whose value varies (the first, one in the middle, the last)
VariedKeys == {1, 13, 15}

\* [DEFAULT] sections tried: none, or one key with a value (a required key
\* or a name a reference looks up)
DefaultSections ==
    {<<>>} \cup {[x \in {k} |-> <<"/", "z">>] : k \in RequiredKeys \cup ExtraKeys}

\* the upper-case letter of a lower-case ASCII letter
UpperChar(c) ==
    IF \E n \in 97..122 : Chr(n) = c
        THEN Chr((CHOOSE n \in 97..122 : Chr(n) = c) - 32)
        ELSE c

UpperKey(k) == [i \in 1..Len(k) |-> UpperChar(k[i])]

\* the line of a section header, and the usual line of an option
Header(name) == <<"[">> \o name \o <<"]">>
OptionLine(k, v) == k \o <<" ", "=", " ">> \o v

\* what a continuation line and a comment line say
Continuation == <<"y">>
Comment == <<"#", " ", "c">>

\* the ways the line of the varied key is written: as the other lines; with
\* no space at the delimiter; with ":"; with tabs and spaces around the
\* delimiter and after the value; with the key in upper case; with a
\* continuation line; with an empty line before the continuation line;
\* among comment lines and before a line of spaces; and indented
Forms == {"plain", "tight", "colon", "padded", "upper", "continued", "gap",
          "commented", "indented"}

FormLines(form, k, v) ==
    CASE form = "plain" -> <<OptionLine(k, v)>>
      [] form = "tight" -> <<k \o <<"=">> \o v>>
      [] form = "colon" -> <<k \o <<":", " ">> \o v>>
      [] form = "padded" -> <<k \o <<"\t", "=", " ", " ">> \o v \o <<" ", "\t">>>>
      [] form = "upper" -> <<OptionLine(UpperKey(k), v)>>
      [] form = "continued" -> <<OptionLine(k, v), <<" ", " ">> \o Continuation>>
      [] form = "gap" -> <<OptionLine(k, v), <<>>, <<" ">> \o Continuation>>
      [] form = "commented" -> <<Comment, OptionLine(k, v), <<";">>, <<" ", " ">>>>
      [] form = "indented" -> << <<" ", " ">> \o OptionLine(k, v) >>

\* the value the lines of a form give the key (for "indented", when the line
\* is the first of its section)
FormValue(form, v) ==
    CASE form = "continued" -> v \o <<"\n">> \o Continuation
      [] form = "gap" -> v \o <<"\n", "\n">> \o Continuation
      [] OTHER -> v

\* the text of the usual line of an option, as a continuation line adds it
\* to the value before it
LineText(k, v) == k \o <<" ", "=">> \o (IF v = <<>> THEN <<>> ELSE <<" ">> \o v)

\* the lines of the options of [arxiv-sanity] from key i on: every key but
\* those of missing, the key sk in the given form with value v
RECURSIVE SectionLines(_, _, _, _, _)
SectionLines(i, missing, sk, form, v) ==
    IF i > Len(vars_list) THEN <<>>
    ELSE (IF i \in missing THEN <<>>
          ELSE IF i = sk THEN FormLines(form, vars_list[i], v)
          ELSE <<OptionLine(vars_list[i], PlainValue(i))>>)
         \o SectionLines(i + 1, missing, sk, form, v)

\* the options those lines set: an indented line that has an option line
\* before it in the section continues the value of that option and sets no
\* option of its own
SectionWritten(missing, sk, form, v) ==
    LET present == (1..Len(vars_list)) \ missing
        before == {j \in present : j < sk}
        continues == form = "indented" /\ sk \in present /\ before # {}
        last == CHOOSE j \in before : \A j2 \in before : j2 <= j
    IN  [k \in {vars_list[i] : i \in present \ (IF continues THEN {sk} ELSE {})} |->
            LET i == KeyIndex(k) IN
            IF i = sk THEN FormValue(form, v)
            ELSE IF continues /\ i = last
                THEN PlainValue(i) \o <<"\n">> \o LineText(vars_list[sk], v)
            ELSE PlainValue(i)]

\* the lines of [DEFAULT]
DefaultLines(d) ==
    IF d = <<>> THEN <<>>
    ELSE LET k == CHOOSE x \in DOMAIN d : TRUE
         IN  <<Header(DEFAULTSECT), OptionLine(k, d[k])>>

\* what is wrong with the text of a file: nothing; a key written twice
\* (once in upper case); a second [arxiv-sanity] header; a line with no
\* delimiter; a line with no option name; an option before the first
\* header; the file cannot be opened; the section header is written with
\* other letter case
FileFaults == {"none", "duplicate option", "duplicate section", "no delimiter",
           "empty name", "no header", "absent", "other section"}

\* where a file has an undecodable byte: nowhere; in the line after its
\* text, in the first buffer; in a line after comment lines that fill a
\* buffer, in a later buffer
BadBytes == {"none", "early", "late"}

\* a comment line of 64 bytes with its newline, and as many of them as fill
\* a buffer
PadLine == [i \in 1..63 |-> IF i = 1 THEN "#" ELSE "p"]
Padding == [i \in 1..(CHUNK_SIZE \div 64) |-> PadLine]

\* the lines that follow the text of the file
BadLines(bad) ==
    CASE bad = "early" -> << <<"z", BadByte>> >>
      [] bad = "late" -> Padding \o << <<"z", BadByte>> >>
      [] OTHER -> <<>>

\* the error the file has for configparser: an error of the text that is
\* raised at the line it is met at comes before the undecodable byte of a
\* later buffer; the undecodable byte comes before everything else
FaultError(fault, bad) ==
    LET atonce == CASE fault = "duplicate option" -> "DuplicateOptionError"
                    [] fault = "duplicate section" -> "DuplicateSectionError"
                    [] fault = "no header" -> "MissingSectionHeaderError"
                    [] OTHER -> "ok"
    IN  IF fault = "absent" THEN "ok"
        ELSE IF bad = "late" /\ atonce # "ok" THEN atonce
        ELSE IF bad # "none" THEN "UnicodeDecodeError"
        ELSE IF fault \in {"no delimiter", "empty name"} THEN "ParsingError"
        ELSE atonce

FileLines(d, missing, sk, form, v, fault) ==
    LET first == CHOOSE i \in (1..Len(vars_list)) \ missing :
                     \A j \in (1..Len(vars_list)) \ missing : i <= j
        head == IF fault = "other section" THEN Header(UpperKey(arxiv_sanity))
                ELSE Header(arxiv_sanity)
        body == DefaultLines(d) \o <<head>> \o SectionLines(1, missing, sk, form, v)
    IN  CASE fault = "duplicate option" ->
                 body \o <<OptionLine(UpperKey(vars_list[first]), <<"/", "q">>)>>
          [] fault = "duplicate section" -> body \o <<Header(arxiv_sanity)>>
          [] fault = "no delimiter" -> body \o << <<"j", "u", "n", "k">> >>
          [] fault = "empty name" -> body \o << <<"=", " ", "x">> >>
          [] fault = "no header" -> <<OptionLine(<<"a">>, <<"b">>)>> \o body
          [] OTHER -> body

\* a generated file and what was written into it
GeneratedFile(d, missing, sk, form, v, fault, bad) ==
    [file |-> [exists |-> fault # "absent",
               lines |-> IF fault = "absent" THEN <<>>
                         ELSE FileLines(d, missing, sk, form, v, fault) \o BadLines(bad)],
     written |-> IF fault \in {"absent", "other section"}
                     THEN [kind |-> FaultError(fault, bad), hassec |-> FALSE,
                           section |-> <<>>,
                           defaults |-> IF fault = "absent" THEN <<>> ELSE d]
                     ELSE [kind |-> FaultError(fault, bad), hassec |-> TRUE,
                           section |-> SectionWritten(missing, sk, form, v),
                           defaults |-> d]]

\* the default sections tried with the forms and the faults: none, and one
\* that sets the last key
FewDefaults == {<<>>, [x \in {vars_list[Len(vars_list)]} |-> <<"/", "z">>]}

\* the sets of left-out keys tried with the forms and the faults
FewMissing == {m \in MissingSets : m \subseteq {Len(vars_list)}}

\* the files tried, each by what is put into it: every value, default
\* section and set of left-out keys in the usual form; every form, and every
\* fault with every place of an undecodable byte, with a few of them (the
\* files of more than one buffer without [DEFAULT])
ConfigChoices ==
    {<<d, m, sk, "plain", v, "none", "none">> :
        d \in DefaultSections, m \in MissingSets, sk \in VariedKeys, v \in RawValues}
    \cup
    {<<d, m, sk, form, v, "none", "none">> :
        d \in FewDefaults, m \in FewMissing, sk \in VariedKeys,
        form \in Forms, v \in RawValues}
    \cup
    {<<d, m, 1, "plain", <<"/", "x">>, fault, bad>> :
        d \in FewDefaults, m \in FewMissing, fault \in FileFaults,
        bad \in BadBytes \ {"late"}}
    \cup
    {<<<<>>, m, 1, "plain", <<"/", "x">>, fault, "late">> :
        m \in FewMissing, fault \in FileFaults}

InitConfig ==
    /\ IdleIds
    /\ IdleFiles
    /\ \E c \in ConfigChoices :
          LET f == GeneratedFile(c[1], c[2], c[3], c[4], c[5], c[6], c[7])
          IN  /\ cfgfile = f.file
              /\ written = f.written
    /\ Config = [state |-> "unbuilt", err |-> "", attrs |-> <<>>]

\* Config = ConfigFromFile()
Construct ==
    /\ Config.state = "unbuilt"
    /\ Config' = ConfigFromFile(cfgfile)
    /\ UNCHANGED <<cfgfile, written, idvars, fsvars>>

NextConfig == Construct

SpecConfig == InitConfig /\ [][NextConfig]_vars

(***************************************************************************)
(* atomic writes: _tempfile, open_atomic, safe_pickle_dump                 *)
(***************************************************************************)

\* longest content a body writes, and longest content filepath holds before
MaxLen == 2

\* failures of the operating system injected in one run
MaxFaults == 3

\* callers of open_atomic that race for the same filepath
MaxWriters == 3

\* failures of the operating system injected while callers race
MaxRaceFaults == 1

\* names tempfile.mkstemp may choose in the directory of filepath: one for
\* each caller, so that a free name is always left
NumTmpNames == MaxWriters

\* errno of a missing file, the one _tempfile swallows
ENOENT == 2

\* any other errno of os.remove (permission denied)
EACCES == 13

\* path names are pairs: filepath, and the temporary names of its directory
Dest == <<"filepath", 0>>
TmpNames == {<<"tmp", i>> : i \in 1..NumTmpNames}
PathNames == {Dest} \cup TmpNames

\* tmppath before mkstemp has returned
NoPath == <<"none", 0>>

\* a name that names no file
NoIno == 0
Inodes == 1..(1 + 2 * MaxWriters)

\* the bytes of file contents; 0 fills a hole left by a write past the end
Bytes == {1, 2}
Contents == StringsUpTo(Bytes, MaxLen)

\* an inode is in use while a name or an open handle refers to it
InUse(nm, w_, i) ==
    \/ \E n \in DOMAIN nm : nm[n] = i
    \/ \E w \in DOMAIN w_ : w_[w].ino = i

FreeInodes == {i \in Inodes : ~InUse(names, wr, i)}
NewInode == CHOOSE i \in FreeInodes : \A j \in FreeInodes : i <= j

\* the storage of an inode goes when its last name and handle go
Reclaim(nm, w_, d) == [i \in Inodes |-> IF InUse(nm, w_, i) THEN d[i] ELSE <<>>]

\* the buffer buf written at offset off of content d; nothing is written,
\* and the content stays as it is, when the buffer is empty
WriteAt(d, off, buf) ==
    IF buf = <<>> THEN d
    ELSE LET end == off + Len(buf)
             n == IF Len(d) > end THEN Len(d) ELSE end
         IN  [i \in 1..n |->
                 IF i > off /\ i <= end THEN buf[i - off]
                 ELSE IF i <= Len(d) THEN d[i] ELSE 0]

\* what a reader of filepath sees
DestView ==
    IF names[Dest] = NoIno THEN [exists |-> FALSE, data |-> <<>>]
    ELSE [exists |-> TRUE, data |-> data[names[Dest]]]

\* a caller before its call: B is what its body writes, wrote how much of it
\* went to f.write, ino/off/buf the open handle, exc the exception that is
\* propagating, errs and steps what was raised and done so far
IdleWriter ==
    [pc |-> "idle", fsync |-> FALSE, B |-> <<>>, wrote |-> 0, tmp |-> NoPath,
     ino |-> NoIno, off |-> 0, buf |-> <<>>, exc |-> "", errs |-> <<>>,
     steps |-> <<>>, returned |-> FALSE, renamed |-> FALSE, result |-> ""]

\* an exception raised while exc is propagating replaces it
Raised(w, err) == [wr[w] EXCEPT !.exc = err, !.errs = Append(@, err)]

\* the operating system may still make a call fail
CanFail == faults < MaxFaults

\* open_atomic(filepath, 'wb', fsync=...) is entered; the body will write B
Call(w) ==
    /\ wr[w].pc = "idle"
    /\ \E fs \in BOOLEAN, b \in Contents :
          wr' = [wr EXCEPT ![w] = [@ EXCEPT !.pc = "mkstemp", !.fsync = fs, !.B = b]]
    /\ UNCHANGED <<names, data, pre, faults, idvars, cfgvars>>

\* _tempfile: fd, name = tempfile.mkstemp(dir=dirname(filepath)); os.close(fd)
\* creates an empty file under a name no file of the directory has, or raises
\* (the directory cannot be written); when os.close(fd) raises, the file is
\* there and the call ends before the try of _tempfile is entered
Mkstemp(w) ==
    /\ wr[w].pc = "mkstemp"
    /\ \/ /\ FreeInodes # {}
          /\ \E n \in TmpNames :
                /\ names[n] = NoIno
                /\ names' = [names EXCEPT ![n] = NewInode]
                /\ data' = [data EXCEPT ![NewInode] = <<>>]
                /\ \/ /\ wr' = [wr EXCEPT ![w] = [@ EXCEPT !.pc = "open", !.tmp = n]]
                      /\ UNCHANGED faults
                   \/ /\ CanFail
                      /\ faults' = faults + 1
                      /\ wr' = [wr EXCEPT ![w] =
                                   [Raised(w, "CloseFdError") EXCEPT
                                        !.pc = "done", !.tmp = n,
                                        !.result = "CloseFdError"]]
       \/ /\ CanFail
          /\ faults' = faults + 1
          /\ wr' = [wr EXCEPT ![w] = [Raised(w, "MkstempError") EXCEPT
                                          !.pc = "done", !.result = "MkstempError"]]
          /\ UNCHANGED <<names, data>>
    /\ UNCHANGED <<pre, idvars, cfgvars>>

\* the body handed a handle on filepath itself
OpensDest(h) == Dest

\* the path open_atomic opens for the body: tmppath
OpenPath(h) == h.tmp

\* open(tmppath, 'wb'): truncates the file of that name, or creates it, and
\* gives a handle at offset 0; or raises
OpenTmp(w) ==
    /\ wr[w].pc = "open"
    /\ \/ /\ names[OpenPath(wr[w])] # NoIno \/ FreeInodes # {}
          /\ LET i == IF names[OpenPath(wr[w])] # NoIno THEN names[OpenPath(wr[w])] ELSE NewInode IN
             /\ names' = [names EXCEPT ![OpenPath(wr[w])] = i]
             /\ data' = [data EXCEPT ![i] = <<>>]
             /\ wr' = [wr EXCEPT ![w] = [@ EXCEPT !.pc = "body", !.ino = i, !.off = 0]]
          /\ UNCHANGED faults
       \/ /\ CanFail
          /\ faults' = faults + 1
          /\ wr' = [wr EXCEPT ![w] = [Raised(w, "OpenError") EXCEPT !.pc = "cleanup"]]
          /\ UNCHANGED <<names, data>>
    /\ UNCHANGED <<pre, idvars, cfgvars>>

\* the handle after its buffer has been written out at its offset
Flushed(h) == [h EXCEPT !.off = @ + Len(h.buf), !.buf = <<>>]

\* the handle after the first k bytes of its buffer have been written out:
\* the writer keeps the rest
PartFlushed(h, k) == [h EXCEPT !.off = @ + k, !.buf = SubSeq(@, k + 1, Len(@))]

\* the first k bytes of a buffer
FirstBytes(buf, k) == SubSeq(buf, 1, k)

\* the body calls f.write with the next byte of B. The buffered writer keeps
\* the byte with what it holds, or writes out what it holds and keeps the
\* byte, or writes out all of it; or the write fails, after any part of
\* what was buffered has been written out: the byte is not taken, the rest
\* of what was buffered stays, and the error leaves the body, which ends
\* the with block
BodyWrite(w) ==
    /\ wr[w].pc = "body"
    /\ wr[w].wrote < Len(wr[w].B)
    /\ LET byte == wr[w].B[wr[w].wrote + 1]
           h == [wr[w] EXCEPT !.wrote = @ + 1, !.buf = Append(@, byte)]
       IN  \/ /\ wr' = [wr EXCEPT ![w] = h]
              /\ UNCHANGED <<data, faults>>
           \/ /\ wr[w].buf # <<>>
              /\ wr' = [wr EXCEPT ![w] = [Flushed(wr[w]) EXCEPT !.wrote = @ + 1,
                                                                !.buf = <<byte>>]]
              /\ data' = [data EXCEPT ![h.ino] = WriteAt(@, wr[w].off, wr[w].buf)]
              /\ UNCHANGED faults
           \/ /\ wr' = [wr EXCEPT ![w] = Flushed(h)]
              /\ data' = [data EXCEPT ![h.ino] = WriteAt(@, h.off, h.buf)]
              /\ UNCHANGED faults
           \/ /\ CanFail
              /\ faults' = faults + 1
              /\ \E k \in 0..Len(wr[w].buf) :
                    /\ wr' = [wr EXCEPT ![w] =
                                 [PartFlushed(Raised(w, "WriteError"), k) EXCEPT
                                      !.pc = "closing"]]
                    /\ data' = [data EXCEPT ![wr[w].ino] =
                                    WriteAt(@, wr[w].off, FirstBytes(wr[w].buf, k))]
    /\ UNCHANGED <<names, pre, idvars, cfgvars>>

\* the body raises an error of its own while it uses the handle
BodyRaise(w) ==
    /\ wr[w].pc = "body"
    /\ wr' = [wr EXCEPT ![w] = [Raised(w, "BodyError") EXCEPT !.pc = "closing"]]
    /\ UNCHANGED <<names, data, pre, faults, idvars, cfgvars>>

\* where the generator resumes after the yield, the body having returned
AfterYield(fsync) == IF fsync THEN "flush" ELSE "closing"

\* the body has written all of B and returns
BodyReturn(w) ==
    /\ wr[w].pc = "body"
    /\ wr[w].wrote = Len(wr[w].B)
    /\ wr' = [wr EXCEPT ![w] = [@ EXCEPT !.pc = AfterYield(wr[w].fsync), !.returned = TRUE]]
    /\ UNCHANGED <<names, data, pre, faults, idvars, cfgvars>>

\* if fsync: f.flush() writes the buffer out, or raises when a write fails,
\* after any part of the buffer but not all of it has been written out, and
\* keeps the rest; with nothing buffered it makes no system call and cannot
\* fail
Flush(w) ==
    /\ wr[w].pc = "flush"
    /\ \/ /\ wr' = [wr EXCEPT ![w] = [Flushed(@) EXCEPT !.pc = "fsync",
                                                        !.steps = Append(@, "flush")]]
          /\ data' = [data EXCEPT ![wr[w].ino] = WriteAt(@, wr[w].off, wr[w].buf)]
          /\ UNCHANGED faults
       \/ /\ CanFail /\ wr[w].buf # <<>>
          /\ faults' = faults + 1
          /\ \E k \in 0..(Len(wr[w].buf) - 1) :
                /\ wr' = [wr EXCEPT ![w] =
                             [PartFlushed(Raised(w, "FlushError"), k) EXCEPT
                                  !.pc = "closing"]]
                /\ data' = [data EXCEPT ![wr[w].ino] =
                                WriteAt(@, wr[w].off, FirstBytes(wr[w].buf, k))]
    /\ UNCHANGED <<names, pre, idvars, cfgvars>>

\* os.fsync(file.fileno()): no name file is defined in the module or in the
\* builtins of Python 3, so the expression raises NameError before os.fsync
\* is called
FsyncCall == "NameError"

Fsync(w) ==
    /\ wr[w].pc = "fsync"
    /\ wr' = [wr EXCEPT ![w] = [Raised(w, FsyncCall) EXCEPT !.pc = "closing"]]
    /\ UNCHANGED <<names, data, pre, faults, idvars, cfgvars>>

\* the rename placed where it runs whether or not the body raised
AlwaysRename(exc) == "rename"

\* leaving "with open(...) as f": os.rename is the next statement only when
\* no exception is propagating
AfterWith(exc) == IF exc = "" THEN "rename" ELSE "cleanup"

\* a close that loses what is still buffered
CloseWritesNothing(h) == <<>>

\* what f.close() writes out before it closes the descriptor: the buffer
CloseWrites(h) == h.buf

\* the with block of open ends: f.close() writes the buffer out and closes
\* the descriptor; or it raises, buffer empty or not, because a write fails
\* (after any part of the buffer but not all of it has been written out) or
\* because closing the descriptor fails (the buffer has been written): the
\* handle is closed all the same and the error propagates
CloseFile(w) ==
    /\ wr[w].pc = "closing"
    /\ \/ /\ LET c == [wr[w] EXCEPT !.buf = <<>>, !.ino = NoIno, !.off = 0,
                                    !.pc = AfterWith(wr[w].exc),
                                    !.steps = Append(@, "close")]
                 w2 == [wr EXCEPT ![w] = c]
             IN  /\ wr' = w2
                 /\ data' = Reclaim(names, w2,
                               [data EXCEPT ![wr[w].ino] =
                                   WriteAt(@, wr[w].off, CloseWrites(wr[w]))])
          /\ UNCHANGED faults
       \/ /\ CanFail
          /\ faults' = faults + 1
          /\ LET w2 == [wr EXCEPT ![w] = [Raised(w, "CloseError") EXCEPT
                                              !.buf = <<>>, !.ino = NoIno, !.off = 0,
                                              !.pc = "cleanup"]]
             IN  /\ wr' = w2
                 /\ \E k \in 0..Len(CloseWrites(wr[w])) :
                       data' = Reclaim(names, w2,
                                  [data EXCEPT ![wr[w].ino] =
                                      WriteAt(@, wr[w].off,
                                              FirstBytes(CloseWrites(wr[w]), k))])
    /\ UNCHANGED <<names, pre, idvars, cfgvars>>

\* os.rename(tmppath, filepath): the name filepath now refers to the file
\* tmppath named, and tmppath is gone, in one step; or raises and changes
\* nothing (always when tmppath names no file)
Rename(w) ==
    /\ wr[w].pc = "rename"
    /\ \/ /\ names[wr[w].tmp] # NoIno
          /\ LET nm == [names EXCEPT ![Dest] = names[wr[w].tmp], ![wr[w].tmp] = NoIno]
                 w2 == [wr EXCEPT ![w] = [@ EXCEPT !.pc = "cleanup", !.renamed = TRUE,
                                                   !.steps = Append(@, "rename")]]
             IN  /\ names' = nm
                 /\ wr' = w2
                 /\ data' = Reclaim(nm, w2, data)
          /\ UNCHANGED faults
       \/ /\ CanFail \/ names[wr[w].tmp] = NoIno
          /\ faults' = IF names[wr[w].tmp] = NoIno THEN faults ELSE faults + 1
          /\ wr' = [wr EXCEPT ![w] = [Raised(w, "RenameError") EXCEPT !.pc = "cleanup"]]
          /\ UNCHANGED <<names, data>>
    /\ UNCHANGED <<pre, idvars, cfgvars>>

\* except OSError as e: if e.errno == 2: pass  else: raise e
Swallowed(errno) == errno = ENOENT

\* the OSError that os.remove raises, by its errno: errno 2 is the
\* missing-file error
RemoveError(errno) == IF errno = ENOENT THEN "FileNotFoundError" ELSE "RemoveError"

\* the call ends: the caller receives the exception that is propagating
Ended(h) == [h EXCEPT !.pc = "done", !.result = IF h.exc = "" THEN "ok" ELSE h.exc]

\* finally: os.remove(name) of _tempfile, with its except clause
Remove(w) ==
    /\ wr[w].pc = "cleanup"
    /\ \/ \* the name is gone: os.remove raises OSError with errno 2
          /\ names[wr[w].tmp] = NoIno
          /\ wr' = [wr EXCEPT ![w] =
                       IF Swallowed(ENOENT) THEN Ended(@)
                       ELSE Ended(Raised(w, RemoveError(ENOENT)))]
          /\ UNCHANGED <<names, data, faults>>
       \/ \* the file is removed
          /\ names[wr[w].tmp] # NoIno
          /\ LET nm == [names EXCEPT ![wr[w].tmp] = NoIno]
                 w2 == [wr EXCEPT ![w] = Ended(@)]
             IN  /\ names' = nm
                 /\ wr' = w2
                 /\ data' = Reclaim(nm, w2, data)
          /\ UNCHANGED faults
       \/ \* os.remove raises OSError with another errno, whether or not the
          \* name still names a file
          /\ CanFail
          /\ faults' = faults + 1
          /\ wr' = [wr EXCEPT ![w] =
                       IF Swallowed(EACCES) THEN Ended(@)
                       ELSE Ended(Raised(w, RemoveError(EACCES)))]
          /\ UNCHANGED <<names, data>>
    /\ UNCHANGED <<pre, idvars, cfgvars>>

\* the directory before the calls: filepath absent or holding some content
\* (in inode 1), no temporary file
InitFiles(writers) ==
    /\ IdleIds
    /\ IdleConfig
    /\ \E p \in [exists : {TRUE}, data : Contents] \cup {[exists |-> FALSE, data |-> <<>>]} :
          /\ pre = p
          /\ names = [n \in PathNames |-> IF n = Dest /\ p.exists THEN 1 ELSE NoIno]
          /\ data = [i \in Inodes |-> IF i = 1 THEN p.data ELSE <<>>]
    /\ wr \in [writers -> {IdleWriter}]
    /\ faults = 0

\* the caller of the single call
OneWriter == {1}

\* one call of open_atomic
Init == InitFiles(OneWriter)

Next ==
    \/ \E w \in OneWriter : Call(w)
    \/ \E w \in OneWriter : Mkstemp(w)
    \/ \E w \in OneWriter : OpenTmp(w)
    \/ \E w \in OneWriter : BodyWrite(w)
    \/ \E w \in OneWriter : BodyRaise(w)
    \/ \E w \in OneWriter : BodyReturn(w)
    \/ \E w \in OneWriter : Flush(w)
    \/ \E w \in OneWriter : Fsync(w)
    \/ \E w \in OneWriter : CloseFile(w)
    \/ \E w \in OneWriter : Rename(w)
    \/ \E w \in OneWriter : Remove(w)

Spec == Init /\ [][Next]_vars

Racers == 1..MaxWriters

\* the content each of the racing callers writes: its own number
RaceContent(w) == <<w>>

\* the first of them asks for fsync
RaceFsync(w) == w = 1

\* several processes have entered open_atomic(filepath, 'wb') for the same
\* filepath, each with content of its own; filepath holds content that none
\* of them writes
InitRace ==
    /\ IdleIds
    /\ IdleConfig
    /\ \E p \in {[exists |-> TRUE, data |-> <<0>>]} :
          /\ pre = p
          /\ names = [n \in PathNames |-> IF n = Dest /\ p.exists THEN 1 ELSE NoIno]
          /\ data = [i \in Inodes |-> IF i = 1 THEN p.data ELSE <<>>]
    /\ wr = [w \in Racers |->
                [IdleWriter EXCEPT !.pc = "mkstemp", !.B = RaceContent(w),
                                   !.fsync = RaceFsync(w)]]
    /\ faults = MaxFaults - MaxRaceFaults

NextRace ==
    \/ \E w \in Racers : Mkstemp(w)
    \/ \E w \in Racers : OpenTmp(w)
    \/ \E w \in Racers : BodyWrite(w)
    \/ \E w \in Racers : BodyRaise(w)
    \/ \E w \in Racers : BodyReturn(w)
    \/ \E w \in Racers : Flush(w)
    \/ \E w \in Racers : Fsync(w)
    \/ \E w \in Racers : CloseFile(w)
    \/ \E w \in Racers : Rename(w)
    \/ \E w \in Racers : Remove(w)

SpecRace == InitRace /\ [][NextRace]_vars

(***************************************************************************)
(* arxiv utils                                                             *)
(***************************************************************************)

\* str.split(sep) for a one-character separator: the pieces between the
\* occurrences of sep, in order (always at least one piece)
RECURSIVE Split(_, _)
Split(s, sep) ==
    IF \A i \in 1..Len(s) : s[i] # sep THEN <<s>>
    ELSE LET p == CHOOSE i \in 1..Len(s) : s[i] = sep /\ \A j \in 1..(i - 1) : s[j] # sep
         IN  <<SubSeq(s, 1, p - 1)>> \o Split(SubSeq(s, p + 1, Len(s)), sep)

\* parts[-1] in place of parts[0]
StripTakesLast(idstr_) == Split(idstr_, "v")[Len(Split(idstr_, "v"))]

\* strip_version: parts = idstr.split('v'); return parts[0]
strip_version(idstr_) == Split(idstr_, "v")[1]

\* the positions after one or more digits starting at position i  (\d+)
DigitsPlus(s, i) ==
    {j \in (i + 1)..(Len(s) + 1) : \A k \in i..(j - 1) : IsDigit(s[k])}

\* the literal character c at position i
CharAt(s, i, c) == i <= Len(s) /\ s[i] = c

\* $ of a pattern compiled without re.MULTILINE: the end of the string, or
\* the position just before a newline that is the last character
DollarAt(s, i) == i = Len(s) + 1 \/ (i = Len(s) /\ s[i] = "\n")

\* re.match('^\d+\.\d+(v\d+)?$', pid): TRUE when a match object is returned
isvalidid(pid) ==
    \E j1 \in DigitsPlus(pid, 1) :
        /\ CharAt(pid, j1, ".")
        /\ \E j2 \in DigitsPlus(pid, j1 + 1) :
              \/ DollarAt(pid, j2)
              \/ /\ CharAt(pid, j2, "v")
                 /\ \E j3 \in DigitsPlus(pid, j2 + 1) : DollarAt(pid, j3)

InitIds ==
    /\ IdleConfig
    /\ IdleFiles
    /\ idstr \in StringsUpTo(IdChars, MaxIdLen)
    /\ matchres = "unset"
    /\ stripres = NoStr
    /\ restrip = NoStr

\* a caller evaluates isvalidid(idstr)
CallIsValidId ==
    /\ matchres = "unset"
    /\ matchres' = IF isvalidid(idstr) THEN "match" ELSE "none"
    /\ UNCHANGED <<idstr, stripres, restrip, cfgvars, fsvars>>

\* a caller evaluates strip_version(idstr)
CallStripVersion ==
    /\ stripres = NoStr
    /\ stripres' = strip_version(idstr)
    /\ UNCHANGED <<idstr, matchres, restrip, cfgvars, fsvars>>

\* a caller evaluates strip_version on the result of the first call
CallStripAgain ==
    /\ stripres # NoStr
    /\ restrip = NoStr
    /\ restrip' = strip_version(stripres)
    /\ UNCHANGED <<idstr, matchres, stripres, cfgvars, fsvars>>

NextIds == CallIsValidId \/ CallStripVersion \/ CallStripAgain

SpecIds == InitIds /\ [][NextIds]_vars

(***************************************************************************)
(* Properties of one open_atomic call                                      *)
(***************************************************************************)

\* the single caller
W == wr[1]

Done == W.pc = "done"

HasErr(e) == \E i \in 1..Len(W.errs) : W.errs[i] = e

\* the body raised while it used the handle: its own error, or the error of
\* a write it made
BodyRaised == W.errs # <<>> /\ W.errs[1] \in {"BodyError", "WriteError"}

\* the body returned normally
BodyReturned == W.returned

NoTmpLeft == \A n \in TmpNames : names[n] = NoIno

HoldsB == DestView = [exists |-> TRUE, data |-> W.B]

\* C1 as stated: when the body raises, filepath is left as it was and the
\* caller receives the error the body raised.
C1_BodyErrorReceived ==
    (Done /\ BodyRaised) => (DestView = pre /\ ~W.renamed /\ W.result = W.errs[1])

\* C1 amended: when the body raises, the rename is skipped and filepath is
\* left as it was; the caller receives the error the body raised unless
\* closing the handle or deleting the temporary file then fails, in which
\* case it receives the error of the last of these failures.
C1_BodyErrorUnlessCleanupFails ==
    (Done /\ BodyRaised)
        => /\ DestView = pre
           /\ ~W.renamed
           /\ W.result = IF HasErr("RemoveError") THEN "RemoveError"
                         ELSE IF HasErr("CloseError") THEN "CloseError"
                         ELSE W.errs[1]

C1_Witness ==
    /\ Done /\ W.errs = <<"BodyError">> /\ W.result = "BodyError"
    /\ pre.exists /\ DestView = pre
    /\ W.wrote > 0 /\ pre.data # W.B

\* C2: at every point of a call, whatever fails, filepath holds what it held
\* before the call or the complete content the body writes, never a part.
C2_NeverPartial ==
    \/ DestView = pre
    \/ (HoldsB /\ W.renamed)

C2_Witness ==
    /\ W.renamed /\ HoldsB /\ Len(W.B) >= 2
    /\ pre.exists /\ pre.data # W.B /\ pre.data # <<>>
    /\ W.pc = "cleanup"

\* C3 as stated: with fsync unset, when the body writes B and returns
\* normally, filepath holds exactly B after the call.
C3_ReturnedThenB ==
    (Done /\ ~W.fsync /\ BodyReturned) => HoldsB

\* C3 amended: with fsync unset, when the body writes B and returns normally
\* and closing the handle and the rename then succeed, filepath holds
\* exactly B after the call, whether it was absent before or held other
\* content, and whatever the deletion of the temporary name then does; when
\* closing or the rename fails, filepath is left as it was and the caller
\* receives an error.
C3_RenamedThenB ==
    (Done /\ ~W.fsync /\ BodyReturned)
        => IF W.renamed THEN HoldsB
           ELSE DestView = pre /\ W.result # "ok"

C3_Witness ==
    /\ Done /\ ~W.fsync /\ BodyReturned /\ W.renamed
    /\ ~pre.exists /\ Len(W.B) >= 2 /\ HoldsB

\* C4: with fsync set, when the body returns normally the call flushes,
\* forces the data to storage, closes the handle and renames, in this order,
\* ends without error and leaves the body's content in filepath.
C4_FsyncThenRename ==
    (Done /\ W.fsync /\ BodyReturned)
        => /\ W.steps = <<"flush", "fsync", "close", "rename">>
           /\ W.result = "ok"
           /\ HoldsB

\* C10 as stated: after every call no temporary file remains; a missing
\* temporary file at cleanup raises nothing; another error of the deletion
\* reaches the caller.
C10_NoTmpLeft ==
    Done => /\ NoTmpLeft
            /\ ~HasErr("FileNotFoundError")
            /\ ((W.renamed /\ ~HasErr("RemoveError")) => W.result = "ok")
            /\ (HasErr("RemoveError") => W.result = "RemoveError")

(***************************************************************************)
(* Properties of racing open_atomic calls                                  *)
(***************************************************************************)

\* C5: while several calls for the same filepath interleave, filepath holds
\* what it held before, or the complete content of one caller that has done
\* its rename, and a caller never touches the temporary file of another.
C5_OneWholeWriter ==
    \/ DestView = pre
    \/ \E w \in Racers : wr[w].renamed /\ DestView = [exists |-> TRUE, data |-> wr[w].B]

(***************************************************************************)
(* Properties of ConfigFromFile                                            *)
(***************************************************************************)

Constructed == Config.state # "unbuilt"

HasPercent(v) == \E i \in 1..Len(v) : v[i] = "%"

\* the required keys the file does not set in [arxiv-sanity]
MissingFromSection == RequiredKeys \ DOMAIN written.section

\* the required keys the file sets neither there nor in [DEFAULT]
MissingEverywhere == RequiredKeys \ (DOMAIN written.section \cup DOMAIN written.defaults)

\* the value written for key k, in the section or else in [DEFAULT]
Written(k) ==
    IF k \in DOMAIN written.section THEN written.section[k] ELSE written.defaults[k]

\* C6 as stated: a file with the section that lacks a required key in that
\* section makes the construction fail with a missing-key error.
C6_MissingKeyFails ==
    (Constructed /\ written.hassec /\ MissingFromSection # {})
        => (Config.state = "failed" /\ Config.err = "NoOptionError")

\* C6 amended: when the file has the section and a required key is set
\* neither in the section nor in [DEFAULT], the construction fails and
\* returns no object; when configparser rejects the text of the file the
\* error is the one it raises for it; otherwise the error is the missing-key
\* error whenever no required key listed before the first such key has a
\* value containing "%".
C6_MissingEverywhereFails ==
    (Constructed /\ written.hassec /\ MissingEverywhere # {})
        => /\ Config.state = "failed"
           /\ Config.attrs = <<>>
           /\ IF written.kind # "ok" THEN Config.err = written.kind
              ELSE LET first == CHOOSE k \in MissingEverywhere :
                                    \A k2 \in MissingEverywhere : KeyIndex(k) <= KeyIndex(k2)
                   IN  (\A j \in 1..(KeyIndex(first) - 1) : ~HasPercent(Written(vars_list[j])))
                           => Config.err = "NoOptionError"

C6_Witness ==
    /\ Constructed /\ written.hassec /\ written.kind = "ok"
    /\ MissingFromSection = {vars_list[2], vars_list[15]}
    /\ MissingEverywhere = {vars_list[2]}
    /\ Config.state = "failed" /\ Config.err = "NoOptionError"

\* C7 as stated: a file with the section and all 15 keys is loaded, and each
\* attribute equals the value written for its key, character for character.
C7_Verbatim ==
    (Constructed /\ written.hassec /\ MissingFromSection = {})
        => /\ Config.state = "built"
           /\ DOMAIN Config.attrs = RequiredKeys
           /\ \A k \in RequiredKeys : Config.attrs[k] = written.section[k]

\* C7 amended: a file that configparser reads without error, with the
\* section and all 15 keys, none of whose values contains "%", is loaded,
\* and each attribute equals the value written for its key in the section
\* (what follows the delimiter, without the white space around it, and the
\* continuation lines after a newline each), character for character,
\* whatever [DEFAULT] holds.
C7_VerbatimNoPercent ==
    (/\ Constructed /\ written.kind = "ok" /\ written.hassec
     /\ MissingFromSection = {}
     /\ \A k \in RequiredKeys : ~HasPercent(written.section[k]))
        => /\ Config.state = "built"
           /\ DOMAIN Config.attrs = RequiredKeys
           /\ \A k \in RequiredKeys : Config.attrs[k] = written.section[k]

C7_Witness ==
    /\ Config.state = "built" /\ written.hassec /\ MissingFromSection = {}
    /\ \A k \in RequiredKeys : ~HasPercent(written.section[k])
    /\ vars_list[15] \in DOMAIN written.defaults
    /\ \E i \in 1..Len(cfgfile.lines) :
          cfgfile.lines[i] = FormLines("padded", vars_list[15], <<"/", "x">>)[1]
    /\ Config.attrs[vars_list[15]] = <<"/", "x">>
    /\ Config.attrs[vars_list[1]] = <<"/", "a">>

(***************************************************************************)
(* Properties of the arxiv utils                                           *)
(***************************************************************************)

\* positions lo..hi of s hold one or more digits and nothing else
AllDigits(s, lo, hi) == lo <= hi /\ \A k \in lo..hi : IsDigit(s[k])

\* the whole of s is digits, a dot, digits and optionally "v" and digits
WholeIsId(s) ==
    \E d \in 1..Len(s) :
        /\ s[d] = "."
        /\ AllDigits(s, 1, d - 1)
        /\ \/ AllDigits(s, d + 1, Len(s))
           \/ \E v \in (d + 1)..Len(s) :
                 /\ s[v] = "v"
                 /\ AllDigits(s, d + 1, v - 1)
                 /\ AllDigits(s, v + 1, Len(s))

HasV(s) == \E i \in 1..Len(s) : s[i] = "v"

\* C8: isvalidid(s) is truthy exactly when the whole of s is digits, a dot,
\* digits and optionally "v" and digits.
C8_ValidExactly ==
    matchres # "unset" => (matchres = "match" <=> WholeIsId(idstr))

\* C9: for an accepted id, strip_version returns the part before the first
\* "v" (the id itself when it has no "v"), the result is accepted too, and
\* stripping it again changes nothing.
C9_StripVersion ==
    (matchres = "match" /\ stripres # NoStr)
        => /\ ~HasV(stripres)
           /\ IF HasV(idstr)
                  THEN /\ Len(stripres) < Len(idstr)
                       /\ stripres = SubSeq(idstr, 1, Len(stripres))
                       /\ idstr[Len(stripres) + 1] = "v"
                  ELSE stripres = idstr
           /\ isvalidid(stripres)
           /\ (restrip # NoStr => restrip = stripres)

C9_Witness ==
    /\ matchres = "match"
    /\ idstr = <<"1", ".", "1", "v", "1">>
    /\ stripres = <<"1", ".", "1">>
    /\ restrip = stripres

=============================================================================
